---- MODULE Spec2Model ----
(***************************************************************************)
(* State-machine model of the Hamiltonian parameter API of Spirit          *)
(* (core/src/Spirit/Hamiltonian.cpp): the seven setters, which run their   *)
(* install/recompute section under the image's lock, and the getters,      *)
(* which read the Hamiltonian's fields without the lock.                   *)
(*                                                                         *)
(* Every API call is a sequence of steps of one thread: each step is one   *)
(* statement (one field write or one field read) of the C++ function, so   *)
(* that the interleavings of two calls are those of the code.              *)
(*                                                                         *)
(* Numbers: scalars are integers.  A normalized direction v/|v| is kept    *)
(* exactly, as the pair [vec |-> v, sq |-> |v|^2] (see normalize).         *)
(* Magnitudes of the external field are stored multiplied by mu_B; the     *)
(* rounding of floating-point arithmetic is not modelled.                 *)
(***************************************************************************)
EXTENDS Integers, Sequences, FiniteSets, TLC

VARIABLES
    ham,        \* image index -> the Hamiltonian of that image (image->hamiltonian)
    lock,       \* image index -> the thread holding the image's lock, or NoThread
    pc,         \* thread -> its position in the API function it is running
    call,       \* thread -> the call it is running: function name and arguments
    loc,        \* thread -> the local variables of the running function
    out,        \* thread -> the output locations the call has written, and its return value
    notices,    \* thread -> the notices the running call has sent to the Log, in order
    ncalls,     \* number of API calls issued so far
    pre,        \* history: thread -> ham when the call was issued / when it took the lock
    half,       \* history: image -> the last setter section ended neither unapplied nor complete
    okOut,      \* history: thread -> the complete values a racing getter may legitimately return
    lastExchange, \* history: image -> whether Set_Exchange installed an array, and the last one
    last        \* history: image -> the last setter call that returned on it, and what it left

vars == <<ham, lock, pc, call, loc, out, notices, ncalls, pre, half, okOut, lastExchange, last>>

(***************************************************************************)
(* Bounds of the model.                                                    *)
(***************************************************************************)
\* API calls issued in one run of the sequential specification
MaxCalls == 2
\* API calls issued in one run of the concurrent specification
MaxConcCalls == 2
\* geometry of every image: basis cells and atoms per basis cell
NCells == 2
NCellAtoms == 2

Threads == {"t1", "t2"}
NoThread == "none"
Images == {0, 1}
\* the caller's indices: images 0 and 1 of chain 0 exist, image 2 and chain 1 do not
IndexInputs == {<<0, 0>>, <<1, 0>>, <<2, 0>>, <<0, 1>>}

n_cell_atoms == NCellAtoms
nos == NCells * NCellAtoms

(***************************************************************************)
(* Vectors and scalars.                                                    *)
(***************************************************************************)
Dot(a, b) == a[1] * b[1] + a[2] * b[2] + a[3] * b[3]
Cross(a, b) == << a[2] * b[3] - a[3] * b[2],
                  a[3] * b[1] - a[1] * b[3],
                  a[1] * b[2] - a[2] * b[1] >>

\* mutant of normalize: the vector is stored as given
normalize_skipped(v) == [vec |-> v, sq |-> 1]
\* Vector3::normalize(): v / |v|, kept exactly as v over the root of sq
normalize(v) == [vec |-> v, sq |-> Dot(v, v)]

\* a plain (not normalized) vector in the same representation
Plain(v) == [vec |-> v, sq |-> 1]

\* Constants::mu_B (0.05788... meV/T) in units of 10^-5 meV/T
mu_B == 5788

Fill(n, x) == [i \in 1..n |-> x]

(***************************************************************************)
(* Geometry and the pair generator (Engine::Neighbours).  The sites of an  *)
(* image lie on a line, site s at x = s; the geometry is never written.    *)
(***************************************************************************)
Pair(a, b) == [i |-> a, j |-> b, translations |-> <<0, 0, 0>>]
Distance(p) == p.j - p.i

AllSitePairs == [k \in 1..(nos * nos) |-> Pair((k - 1) \div nos, (k - 1) % nos)]

\* Engine::Neighbours::Get_Pairs_in_Radius: every pair i < j no further apart
\* than radius, in a fixed order; none for radius <= 0
Get_Pairs_in_Radius(radius) ==
    SelectSeq(AllSitePairs, LAMBDA p : p.i < p.j /\ Distance(p) <= radius)

\* scale of the dipolar coupling: magnitude = DDI_Scale / distance^3
DDI_Scale == 216

\* Engine::Neighbours::DDI_from_Pair: inverse-cube magnitude, unit normal along
\* the displacement
DDI_from_Pair(p) ==
    [magnitude |-> DDI_Scale \div (Distance(p) * Distance(p) * Distance(p)),
     normal    |-> normalize(<<Distance(p), 0, 0>>)]

(***************************************************************************)
(* Engine::Hamiltonian_Heisenberg: derived data.                           *)
(***************************************************************************)
\* the cached list of active energy contributions
Update_Energy_Contributions(h) ==
    LET tags == << <<"Zeeman",     h.external_field_magnitude > 0>>,
                   <<"Anisotropy", Len(h.anisotropy_indices) > 0>>,
                   <<"Exchange",   Len(h.exchange_pairs) > 0>>,
                   <<"DMI",        Len(h.dmi_pairs) > 0>>,
                   <<"DDI",        Len(h.ddi_pairs) > 0>> >>
        on == SelectSeq(tags, LAMBDA x : x[2])
    IN  [h EXCEPT !.energy_contributions = [k \in 1..Len(on) |-> on[k][1]]]

\* pairs of the first Len(shells) shells: shell d holds the pairs at distance d
ShellPairs(shells) == Get_Pairs_in_Radius(Len(shells))

\* exchange and DMI pairs: the explicit pairs when given, else generated from
\* the shells; then the contributions are refreshed
Update_Interactions(h) ==
    LET xp == ShellPairs(h.exchange_shell_magnitudes)
        dp == ShellPairs(h.dmi_shell_magnitudes)
        h1 == IF Len(h.exchange_pairs_in) > 0
                THEN [h EXCEPT !.exchange_pairs = h.exchange_pairs_in,
                               !.exchange_magnitudes = h.exchange_magnitudes_in]
                ELSE [h EXCEPT !.exchange_pairs = xp,
                               !.exchange_magnitudes =
                                   [k \in 1..Len(xp) |-> h.exchange_shell_magnitudes[Distance(xp[k])]]]
        h2 == IF Len(h.dmi_pairs_in) > 0
                THEN [h1 EXCEPT !.dmi_pairs = h.dmi_pairs_in,
                                !.dmi_magnitudes = h.dmi_magnitudes_in,
                                !.dmi_normals = h.dmi_normals_in]
                ELSE [h1 EXCEPT !.dmi_pairs = dp,
                                !.dmi_magnitudes =
                                    [k \in 1..Len(dp) |-> h.dmi_shell_magnitudes[Distance(dp[k])]],
                                !.dmi_normals =
                                    [k \in 1..Len(dp) |->
                                        normalize(<<h.dmi_shell_chirality * Distance(dp[k]), 0, 0>>)]]
    IN  Update_Energy_Contributions(h2)

(***************************************************************************)
(* The Hamiltonians an image can be constructed with.                      *)
(***************************************************************************)
HeisenbergRaw ==
    [name |-> "Heisenberg",
     boundary_conditions |-> <<FALSE, FALSE, FALSE>>,
     mu_s |-> Fill(nos, 1),
     external_field_magnitude |-> 1 * mu_B,
     external_field_normal |-> normalize(<<0, 0, 1>>),
     anisotropy_indices |-> <<>>,
     anisotropy_magnitudes |-> <<>>,
     anisotropy_normals |-> <<>>,
     exchange_shell_magnitudes |-> <<10>>,
     exchange_pairs_in |-> <<>>,
     exchange_magnitudes_in |-> <<>>,
     exchange_pairs |-> <<>>,
     exchange_magnitudes |-> <<>>,
     dmi_shell_magnitudes |-> <<>>,
     dmi_shell_chirality |-> 1,
     dmi_pairs_in |-> <<>>,
     dmi_magnitudes_in |-> <<>>,
     dmi_normals_in |-> <<>>,
     dmi_pairs |-> <<>>,
     dmi_magnitudes |-> <<>>,
     dmi_normals |-> <<>>,
     ddi_cutoff_radius |-> 0,
     ddi_pairs |-> <<>>,
     ddi_magnitudes |-> <<>>,
     ddi_normals |-> <<>>,
     energy_contributions |-> <<>>]

\* a Heisenberg Hamiltonian given by shells
HeisenbergShells == Update_Interactions(HeisenbergRaw)

\* a Heisenberg Hamiltonian given by explicit exchange and DMI pairs
HeisenbergPairs ==
    Update_Interactions(
        [HeisenbergRaw EXCEPT
            !.exchange_shell_magnitudes = <<>>,
            !.exchange_pairs_in = <<Pair(0, 1)>>,
            !.exchange_magnitudes_in = <<4>>,
            !.dmi_pairs_in = <<Pair(0, 1)>>,
            !.dmi_magnitudes_in = <<3>>,
            !.dmi_normals_in = <<normalize(<<0, 0, 1>>)>>])

\* Engine::Hamiltonian_Gaussian: the parameters of the energy landscape
Gaussian ==
    [name |-> "Gaussian",
     boundary_conditions |-> <<FALSE, FALSE, FALSE>>,
     n_gaussians |-> 1,
     amplitude |-> <<1>>,
     width |-> <<2>>,
     center |-> << <<0, 0, 1>> >>]

IsHeisenberg(h) == h.name = "Heisenberg"

(***************************************************************************)
(* API calls.  A call names the function and carries its arguments:        *)
(* flags (periodical), scalar (mu_s, magnitude or radius), vector (normal),*)
(* array (jij or dij; n_shells is its length) and chirality.               *)
(***************************************************************************)
NoCall ==
    [op |-> "none", idx_image |-> 0, idx_chain |-> 0,
     flags |-> <<FALSE, FALSE, FALSE>>, scalar |-> 0, vector |-> <<0, 0, 1>>,
     array |-> <<>>, chirality |-> 1]

At(c, idx) == [c EXCEPT !.idx_image = idx[1], !.idx_chain = idx[2]]

PeriodicalInputs == {<<TRUE, TRUE, TRUE>>, <<FALSE, TRUE, FALSE>>}
ScalarInputs == {0, 2}
NormalInputs == {<<0, 0, 2>>, <<3, -4, 0>>}
ShellInputs == {<<>>, <<5>>, <<5, 7>>}
ChiralityInputs == {1, -1}

HeisenbergSetters ==
    {"Set_mu_s", "Set_Field", "Set_Anisotropy", "Set_Exchange", "Set_DMI", "Set_DDI"}
Setters == {"Set_Boundary_Conditions"} \cup HeisenbergSetters
HeisenbergGetters ==
    {"Get_mu_s", "Get_Field", "Get_Anisotropy", "Get_Exchange_Shells", "Get_DMI_Shells", "Get_DDI"}
PairStubs == {"Get_Exchange_N_Pairs", "Get_Exchange_Pairs", "Get_DMI_N_Pairs"}
Getters == {"Get_Name", "Get_Boundary_Conditions"} \cup HeisenbergGetters \cup PairStubs

SetterCalls ==
    {[NoCall EXCEPT !.op = "Set_Boundary_Conditions", !.flags = p] : p \in PeriodicalInputs}
    \cup {[NoCall EXCEPT !.op = "Set_mu_s", !.scalar = x] : x \in ScalarInputs \ {0}}
    \cup {[NoCall EXCEPT !.op = o, !.scalar = x, !.vector = v] :
            o \in {"Set_Field", "Set_Anisotropy"}, x \in ScalarInputs, v \in NormalInputs}
    \cup {[NoCall EXCEPT !.op = "Set_Field", !.scalar = -1, !.vector = <<3, -4, 0>>]}
    \cup {[NoCall EXCEPT !.op = "Set_Exchange", !.array = a] : a \in ShellInputs}
    \cup {[NoCall EXCEPT !.op = "Set_DMI", !.array = a, !.chirality = c] :
            a \in ShellInputs \ {<<5>>}, c \in ChiralityInputs}
    \cup {[NoCall EXCEPT !.op = "Set_DDI", !.scalar = x] : x \in ScalarInputs}

GetterCalls == {[NoCall EXCEPT !.op = o] : o \in Getters}

\* the solver's evaluation step, which takes the image's lock around it
SolverCalls == {[NoCall EXCEPT !.op = "Solver_Step"]}

\* the calls of the sequential specification
AllCalls == {At(c, idx) : c \in SetterCalls \cup GetterCalls \cup SolverCalls, idx \in IndexInputs}

\* the calls of the concurrent specification: one argument choice per setter,
\* the getters whose reads the claims on races are about, and the solver
ConcCalls ==
    {At(c, <<0, 0>>) : c \in
        {[NoCall EXCEPT !.op = "Set_Boundary_Conditions", !.flags = <<TRUE, TRUE, TRUE>>],
         [NoCall EXCEPT !.op = "Set_mu_s", !.scalar = 2],
         [NoCall EXCEPT !.op = "Set_Field", !.scalar = 2, !.vector = <<3, -4, 0>>],
         [NoCall EXCEPT !.op = "Set_Field", !.scalar = 0, !.vector = <<0, 0, 2>>],
         [NoCall EXCEPT !.op = "Set_Anisotropy", !.scalar = 2, !.vector = <<0, 0, 2>>],
         [NoCall EXCEPT !.op = "Set_Exchange", !.array = <<5, 7>>],
         [NoCall EXCEPT !.op = "Set_DMI", !.array = <<5, 7>>, !.chirality = -1],
         [NoCall EXCEPT !.op = "Set_DDI", !.scalar = 2],
         [NoCall EXCEPT !.op = "Get_Boundary_Conditions"],
         [NoCall EXCEPT !.op = "Get_Field"],
         [NoCall EXCEPT !.op = "Get_Anisotropy"],
         [NoCall EXCEPT !.op = "Solver_Step"]}}
    \cup {At([NoCall EXCEPT !.op = "Set_Field", !.scalar = 2, !.vector = <<3, -4, 0>>], <<1, 0>>),
          At([NoCall EXCEPT !.op = "Set_Boundary_Conditions", !.flags = <<TRUE, TRUE, TRUE>>], <<1, 0>>),
          At([NoCall EXCEPT !.op = "Set_Exchange", !.array = <<5, 7>>], <<2, 0>>)}

\* from_indices: the image of chain idx_chain at idx_image, when there is one
from_indices_ok(idx_image, idx_chain) == idx_chain = 0 /\ idx_image \in Images

\* the image a running call works on
Img(t) == call[t].idx_image

(***************************************************************************)
(* Logging: a notice is the level and the indices it is keyed by.          *)
(***************************************************************************)
Notice(level, c) == <<level, c.idx_image, c.idx_chain>>
Log(t, level) == [notices EXCEPT ![t] = Append(@, Notice(level, call[t]))]
\* spirit_handle_exception_api: the fault becomes an error notice
spirit_handle_exception_api(t) == Log(t, "Error")
CountLevel(t, level) == Cardinality({k \in 1..Len(notices[t]) : notices[t][k][1] = level})

\* output locations written so far
NoOut == [k \in {} |-> 0]
Put(f, k, v) == [x \in DOMAIN f \cup {k} |-> IF x = k THEN v ELSE f[x]]
Written(t, k) == k \in DOMAIN out[t]

NoLoc == [i |-> 1, pairs |-> <<>>, magnitudes |-> <<>>, normals |-> <<>>, faulted |-> FALSE]

(***************************************************************************)
(* What an unsynchronized getter returns when it reads a Hamiltonian whole.*)
(***************************************************************************)
DefaultDirection == normalize(<<0, 0, 1>>)

FieldView(magnitude, normal) ==
    IF magnitude > 0 THEN <<magnitude \div mu_B, normal>> ELSE <<0, DefaultDirection>>

View(op, h) ==
    IF op = "Get_Boundary_Conditions" THEN h.boundary_conditions
    ELSE IF IsHeisenberg(h)
           THEN FieldView(h.external_field_magnitude, h.external_field_normal)
           ELSE <<"unwritten">>

\* the getter that reads what setter call c installs
Reads(getter, c) ==
    \/ getter = "Get_Boundary_Conditions" /\ c.op = "Set_Boundary_Conditions"
    \/ getter = "Get_Field" /\ c.op = "Set_Field"

\* the value that getter returns once setter call c is installed whole
ArgView(c) ==
    IF c.op = "Set_Boundary_Conditions" THEN c.flags
    ELSE FieldView(c.scalar * mu_B, normalize(c.vector))

RacyGetters == {"Get_Boundary_Conditions", "Get_Field"}

\* the thread inside its locked section on image im, if any
InSection(t, im) == lock[im] = t /\ Img(t) = im

\* a setter call that changes the Hamiltonian h
Mutates(c, h) == c.op = "Set_Boundary_Conditions" \/ (c.op \in HeisenbergSetters /\ IsHeisenberg(h))

\* the complete values of image im in play when getter call c starts
StartViews(c) ==
    LET im == c.idx_image
        holders == {s \in Threads : lock[im] = s /\ call[s].op \in Setters}
    IN  IF holders = {} THEN {View(c.op, ham[im])}
        ELSE UNION {{View(c.op, pre[s][im])} \cup
                    (IF Reads(c.op, call[s]) /\ Mutates(call[s], ham[im])
                       THEN {ArgView(call[s])} ELSE {}) : s \in holders}

(***************************************************************************)
(* Initial states.                                                         *)
(***************************************************************************)
InitRest ==
    /\ lock = [i \in Images |-> NoThread]
    /\ call = [t \in Threads |-> NoCall]
    /\ loc = [t \in Threads |-> NoLoc]
    /\ out = [t \in Threads |-> NoOut]
    /\ notices = [t \in Threads |-> <<>>]
    /\ ncalls = 0
    /\ pre = [t \in Threads |-> <<>>]
    /\ half = [i \in Images |-> FALSE]
    /\ okOut = [t \in Threads |-> {}]
    /\ lastExchange = [i \in Images |-> [set |-> FALSE, jij |-> <<>>]]
    /\ last = [i \in Images |-> [call |-> NoCall, ham |-> ham[i], faulted |-> FALSE]]

\* one caller; image 0 is a Heisenberg image, image 1 a Gaussian one
Init ==
    /\ ham \in {[i \in Images |-> IF i = 0 THEN h ELSE Gaussian] :
                    h \in {HeisenbergShells, HeisenbergPairs}}
    /\ pc = [t \in Threads |-> IF t = "t1" THEN "idle" ELSE "off"]
    /\ InitRest

\* two concurrent callers
InitConc ==
    /\ ham = [i \in Images |-> IF i = 0 THEN HeisenbergShells ELSE Gaussian]
    /\ pc = [t \in Threads |-> "idle"]
    /\ InitRest

(***************************************************************************)
(* Entering and leaving an API function.                                   *)
(***************************************************************************)
\* where a function starts once from_indices has resolved the image
Entry(op) ==
    CASE op \in Setters \cup {"Solver_Step"} -> "lock"
      [] op = "Get_Boundary_Conditions" -> "get_bc0"
      [] op = "Get_Field" -> "get_field_test"
      [] op = "Get_Anisotropy" -> "get_anisotropy_test"
      [] op \in PairStubs -> "get_pairs_stub"
      [] OTHER -> "get"

\* mutant of Sentinel: the catch block returns nothing
Sentinel_void(op) == NoOut
\* the value returned when the outer catch block is taken
Sentinel(op) ==
    CASE op = "Get_Name" -> Put(NoOut, "return", "nullptr")
      [] op \in {"Get_Exchange_N_Pairs", "Get_DMI_N_Pairs"} -> Put(NoOut, "return", 0)
      [] OTHER -> NoOut

\* a thread calls an API function: from_indices resolves the image or throws,
\* and the throw is caught by the function's outer catch block
Call(t, calls, budget) ==
    /\ pc[t] = "idle"
    /\ ncalls < budget
    /\ \E c \in calls :
        /\ call' = [call EXCEPT ![t] = c]
        /\ IF from_indices_ok(c.idx_image, c.idx_chain)
             THEN /\ pc' = [pc EXCEPT ![t] = Entry(c.op)]
                  /\ notices' = [notices EXCEPT ![t] = <<>>]
                  /\ out' = [out EXCEPT ![t] = NoOut]
                  /\ okOut' = [okOut EXCEPT ![t] =
                                  IF c.op \in RacyGetters THEN StartViews(c) ELSE {}]
             ELSE /\ pc' = [pc EXCEPT ![t] = "ret"]
                  /\ notices' = [notices EXCEPT ![t] = <<Notice("Error", c)>>]
                  /\ out' = [out EXCEPT ![t] = Sentinel(c.op)]
                  /\ okOut' = [okOut EXCEPT ![t] = {}]
    /\ ncalls' = ncalls + 1
    /\ pre' = [pre EXCEPT ![t] = ham]
    /\ loc' = [loc EXCEPT ![t] = NoLoc]
    /\ UNCHANGED <<ham, lock, half, lastExchange, last>>

\* the function returns to its caller
Return(t) ==
    /\ pc[t] = "ret"
    /\ pc' = [pc EXCEPT ![t] = "idle"]
    /\ call' = [call EXCEPT ![t] = NoCall]
    /\ loc' = [loc EXCEPT ![t] = NoLoc]
    /\ out' = [out EXCEPT ![t] = NoOut]
    /\ notices' = [notices EXCEPT ![t] = <<>>]
    /\ pre' = [pre EXCEPT ![t] = <<>>]
    /\ okOut' = [okOut EXCEPT ![t] = {}]
    /\ last' = IF call[t].op \in Setters /\ from_indices_ok(call[t].idx_image, call[t].idx_chain)
                 THEN [last EXCEPT ![Img(t)] =
                          [call |-> call[t], ham |-> ham[Img(t)], faulted |-> loc[t].faulted]]
                 ELSE last
    /\ UNCHANGED <<ham, lock, ncalls, half, lastExchange>>

(***************************************************************************)
(* The image's lock (Spin_System::Lock, Spin_System::Unlock).              *)
(***************************************************************************)
\* Lock() returns only when no thread holds the image's lock
LockFree(im) == lock[im] = NoThread

\* where the locked section of a call starts
SectionEntry(c, h) ==
    CASE c.op = "Solver_Step" -> "solver_eval"
      [] c.op = "Set_Boundary_Conditions" -> "bc0"
      [] ~IsHeisenberg(h) -> "unsupported"
      [] c.op = "Set_mu_s" -> "mu_s"
      [] c.op = "Set_Field" -> "field_magnitude"
      [] c.op = "Set_Anisotropy" -> "anisotropy_indices"
      [] c.op = "Set_Exchange" -> "exchange_shell_magnitudes"
      [] c.op = "Set_DMI" -> "dmi_shell_magnitudes"
      [] c.op = "Set_DDI" -> "ddi_generate"

\* mutant of Lock: the section is entered without taking the lock
Lock_skipped(t) ==
    /\ pc[t] = "lock"
    /\ pc' = [pc EXCEPT ![t] = SectionEntry(call[t], ham[Img(t)])]
    /\ pre' = [pre EXCEPT ![t] = ham]
    /\ UNCHANGED <<ham, lock, call, loc, out, notices, ncalls, half, okOut, lastExchange, last>>
\* mutant of Lock: one lock for the whole chain, taken as every image's lock
Lock_chain(t) ==
    /\ pc[t] = "lock"
    /\ \A im \in Images : LockFree(im)
    /\ lock' = [im \in Images |-> t]
    /\ pc' = [pc EXCEPT ![t] = SectionEntry(call[t], ham[Img(t)])]
    /\ pre' = [pre EXCEPT ![t] = ham]
    /\ UNCHANGED <<ham, call, loc, out, notices, ncalls, half, okOut, lastExchange, last>>
\* image->Lock(), and the test of Name() that follows it
Lock(t) ==
    /\ pc[t] = "lock"
    /\ LockFree(Img(t))
    /\ lock' = [lock EXCEPT ![Img(t)] = t]
    /\ pc' = [pc EXCEPT ![t] = SectionEntry(call[t], ham[Img(t)])]
    /\ pre' = [pre EXCEPT ![t] = ham]
    /\ half' = IF call[t].op \in Setters THEN [half EXCEPT ![Img(t)] = FALSE] ELSE half
    /\ okOut' = [g \in Threads |->
                    IF /\ g # t
                       /\ pc[g] \notin {"idle", "off", "ret"}
                       /\ Img(g) = Img(t)
                       /\ Reads(call[g].op, call[t])
                       /\ Mutates(call[t], ham[Img(t)])
                      THEN okOut[g] \cup {ArgView(call[t])}
                      ELSE okOut[g]]
    /\ UNCHANGED <<ham, call, loc, out, notices, ncalls, lastExchange, last>>

\* mutant of Unlock: the function goes on without releasing the lock
Unlock_kept(t) ==
    /\ pc[t] = "unlock"
    /\ pc' = [pc EXCEPT ![t] =
                 IF call[t].op = "Set_Boundary_Conditions" THEN "bc_log" ELSE "ret"]
    /\ UNCHANGED <<ham, lock, call, loc, out, notices, ncalls, pre, half, okOut, lastExchange, last>>
\* image->Unlock(); only Set_Boundary_Conditions has a statement after it
Unlock(t) ==
    /\ pc[t] = "unlock"
    /\ lock' = [lock EXCEPT ![Img(t)] = NoThread]
    /\ pc' = [pc EXCEPT ![t] =
                 IF call[t].op = "Set_Boundary_Conditions" THEN "bc_log" ELSE "ret"]
    /\ UNCHANGED <<ham, call, loc, out, notices, ncalls, pre, half, okOut, lastExchange, last>>

(***************************************************************************)
(* The setters' locked sections, one action per statement.                 *)
(***************************************************************************)
H(t) == ham[Img(t)]

\* one statement of a locked section that assigns a field of the Hamiltonian
Install(t, from, to, h) ==
    /\ pc[t] = from
    /\ ham' = [ham EXCEPT ![Img(t)] = h]
    /\ pc' = [pc EXCEPT ![t] = to]
    /\ UNCHANGED <<lock, call, loc, out, notices, ncalls, pre, half, okOut, lastExchange, last>>

\* the last statements of a supported setter's section: the derived data are
\* recomputed and the informational notice is sent
Finish(t, from, h) ==
    /\ pc[t] = from
    /\ ham' = [ham EXCEPT ![Img(t)] = h]
    /\ notices' = Log(t, "Info")
    /\ pc' = [pc EXCEPT ![t] = "unlock"]
    /\ UNCHANGED <<lock, call, loc, out, ncalls, pre, half, okOut, lastExchange, last>>

Set_Boundary_Conditions_0(t) ==
    Install(t, "bc0", "bc1", [H(t) EXCEPT !.boundary_conditions[1] = call[t].flags[1]])
\* mutant of Set_Boundary_Conditions_1: axis b takes the flag of axis a
Set_Boundary_Conditions_1_copied(t) ==
    Install(t, "bc1", "bc2", [H(t) EXCEPT !.boundary_conditions[2] = call[t].flags[1]])
Set_Boundary_Conditions_1(t) ==
    Install(t, "bc1", "bc2", [H(t) EXCEPT !.boundary_conditions[2] = call[t].flags[2]])
Set_Boundary_Conditions_2(t) ==
    Install(t, "bc2", "unlock", [H(t) EXCEPT !.boundary_conditions[3] = call[t].flags[3]])

\* the notice of Set_Boundary_Conditions, sent after Unlock()
Set_Boundary_Conditions_Log(t) ==
    /\ pc[t] = "bc_log"
    /\ notices' = Log(t, "Info")
    /\ pc' = [pc EXCEPT ![t] = "ret"]
    /\ UNCHANGED <<ham, lock, call, loc, out, ncalls, pre, half, okOut, lastExchange, last>>

\* mutant of Unsupported: the else branch sends no notice
Unsupported_silent(t) ==
    /\ pc[t] = "unsupported"
    /\ pc' = [pc EXCEPT ![t] = "unlock"]
    /\ UNCHANGED <<ham, lock, call, loc, out, notices, ncalls, pre, half, okOut, lastExchange, last>>
\* the else branch of every Heisenberg-only setter
Unsupported(t) ==
    /\ pc[t] = "unsupported"
    /\ notices' = Log(t, "Warning")
    /\ pc' = [pc EXCEPT ![t] = "unlock"]
    /\ UNCHANGED <<ham, lock, call, loc, out, ncalls, pre, half, okOut, lastExchange, last>>

\* mutant of Set_mu_s_loop: the loop stops after the atoms of one cell
Set_mu_s_loop_cell(t) ==
    /\ pc[t] = "mu_s"
    /\ IF loc[t].i <= n_cell_atoms
         THEN /\ ham' = [ham EXCEPT ![Img(t)].mu_s[loc[t].i] = call[t].scalar]
              /\ loc' = [loc EXCEPT ![t].i = @ + 1]
              /\ UNCHANGED <<pc, notices>>
         ELSE /\ notices' = Log(t, "Info")
              /\ pc' = [pc EXCEPT ![t] = "unlock"]
              /\ UNCHANGED <<ham, loc>>
    /\ UNCHANGED <<lock, call, out, ncalls, pre, half, okOut, lastExchange, last>>
\* for (auto& m : ham->mu_s) m = mu_s; and the notice after the loop
Set_mu_s_loop(t) ==
    /\ pc[t] = "mu_s"
    /\ IF loc[t].i <= Len(H(t).mu_s)
         THEN /\ ham' = [ham EXCEPT ![Img(t)].mu_s[loc[t].i] = call[t].scalar]
              /\ loc' = [loc EXCEPT ![t].i = @ + 1]
              /\ UNCHANGED <<pc, notices>>
         ELSE /\ notices' = Log(t, "Info")
              /\ pc' = [pc EXCEPT ![t] = "unlock"]
              /\ UNCHANGED <<ham, loc>>
    /\ UNCHANGED <<lock, call, out, ncalls, pre, half, okOut, lastExchange, last>>

Set_Field_magnitude(t) ==
    Install(t, "field_magnitude", "field_normal",
            [H(t) EXCEPT !.external_field_magnitude = call[t].scalar * mu_B])
\* mutant of Set_Field_normal: the direction is stored as it was given
Set_Field_normal_raw(t) ==
    Install(t, "field_normal", "field_update",
            [H(t) EXCEPT !.external_field_normal = normalize_skipped(call[t].vector)])
Set_Field_normal(t) ==
    Install(t, "field_normal", "field_update",
            [H(t) EXCEPT !.external_field_normal = normalize(call[t].vector)])
Set_Field_update(t) == Finish(t, "field_update", Update_Energy_Contributions(H(t)))

Set_Anisotropy_indices(t) ==
    Install(t, "anisotropy_indices", "anisotropy_magnitudes",
            [H(t) EXCEPT !.anisotropy_indices = [i \in 1..n_cell_atoms |-> i - 1]])
Set_Anisotropy_magnitudes(t) ==
    Install(t, "anisotropy_magnitudes", "anisotropy_normals",
            [H(t) EXCEPT !.anisotropy_magnitudes = Fill(n_cell_atoms, call[t].scalar)])
Set_Anisotropy_normals(t) ==
    Install(t, "anisotropy_normals", "anisotropy_update",
            [H(t) EXCEPT !.anisotropy_normals = Fill(nos, normalize(call[t].vector))])
Set_Anisotropy_update(t) == Finish(t, "anisotropy_update", Update_Energy_Contributions(H(t)))

n_shells(c) == Len(c.array)
\* mutant of scalarfield: the last shell is dropped
scalarfield_short(a, n) == SubSeq(a, 1, n - 1)
\* scalarfield(jij, jij + n_shells): the first n_shells entries of the array
scalarfield(a, n) == SubSeq(a, 1, n)

Set_Exchange_shell_magnitudes(t) ==
    /\ pc[t] = "exchange_shell_magnitudes"
    /\ ham' = [ham EXCEPT ![Img(t)].exchange_shell_magnitudes =
                              scalarfield(call[t].array, n_shells(call[t]))]
    /\ lastExchange' = [lastExchange EXCEPT ![Img(t)] = [set |-> TRUE, jij |-> call[t].array]]
    /\ pc' = [pc EXCEPT ![t] = "exchange_pairs_in"]
    /\ UNCHANGED <<lock, call, loc, out, notices, ncalls, pre, half, okOut, last>>
\* mutant of Set_Exchange_pairs_in: the explicit pairs are left as they are
Set_Exchange_pairs_in_kept(t) ==
    Install(t, "exchange_pairs_in", "exchange_magnitudes_in", H(t))
Set_Exchange_pairs_in(t) ==
    Install(t, "exchange_pairs_in", "exchange_magnitudes_in",
            [H(t) EXCEPT !.exchange_pairs_in = <<>>])
Set_Exchange_magnitudes_in(t) ==
    Install(t, "exchange_magnitudes_in", "exchange_update",
            [H(t) EXCEPT !.exchange_magnitudes_in = <<>>])
Set_Exchange_update(t) == Finish(t, "exchange_update", Update_Interactions(H(t)))

Set_DMI_shell_magnitudes(t) ==
    Install(t, "dmi_shell_magnitudes", "dmi_shell_chirality",
            [H(t) EXCEPT !.dmi_shell_magnitudes = scalarfield(call[t].array, n_shells(call[t]))])
\* mutant of Set_DMI_shell_chirality: the chirality given is not stored
Set_DMI_shell_chirality_kept(t) ==
    Install(t, "dmi_shell_chirality", "dmi_pairs_in", H(t))
Set_DMI_shell_chirality(t) ==
    Install(t, "dmi_shell_chirality", "dmi_pairs_in",
            [H(t) EXCEPT !.dmi_shell_chirality = call[t].chirality])
Set_DMI_pairs_in(t) ==
    Install(t, "dmi_pairs_in", "dmi_magnitudes_in", [H(t) EXCEPT !.dmi_pairs_in = <<>>])
Set_DMI_magnitudes_in(t) ==
    Install(t, "dmi_magnitudes_in", "dmi_normals_in", [H(t) EXCEPT !.dmi_magnitudes_in = <<>>])
Set_DMI_normals_in(t) ==
    Install(t, "dmi_normals_in", "dmi_update", [H(t) EXCEPT !.dmi_normals_in = <<>>])
Set_DMI_update(t) == Finish(t, "dmi_update", Update_Interactions(H(t)))

\* the locals of Set_DDI: the pairs within the radius, and the magnitude and
\* normal of each, in the order of the pairs
Set_DDI_generate(t) ==
    /\ pc[t] = "ddi_generate"
    /\ LET pairs == Get_Pairs_in_Radius(call[t].scalar)
       IN  loc' = [loc EXCEPT ![t].pairs = pairs,
                              ![t].magnitudes = [k \in 1..Len(pairs) |-> DDI_from_Pair(pairs[k]).magnitude],
                              ![t].normals = [k \in 1..Len(pairs) |-> DDI_from_Pair(pairs[k]).normal]]
    /\ pc' = [pc EXCEPT ![t] = "ddi_pairs"]
    /\ UNCHANGED <<ham, lock, call, out, notices, ncalls, pre, half, okOut, lastExchange, last>>
\* mutant of Set_DDI_pairs: the generated pairs are appended to the old list
Set_DDI_pairs_appended(t) ==
    Install(t, "ddi_pairs", "ddi_magnitudes", [H(t) EXCEPT !.ddi_pairs = @ \o loc[t].pairs])
Set_DDI_pairs(t) ==
    Install(t, "ddi_pairs", "ddi_magnitudes", [H(t) EXCEPT !.ddi_pairs = loc[t].pairs])
\* mutant of Set_DDI_magnitudes: the new magnitudes are appended to the old
Set_DDI_magnitudes_patched(t) ==
    Install(t, "ddi_magnitudes", "ddi_normals",
            [H(t) EXCEPT !.ddi_magnitudes = @ \o loc[t].magnitudes])
Set_DDI_magnitudes(t) ==
    Install(t, "ddi_magnitudes", "ddi_normals", [H(t) EXCEPT !.ddi_magnitudes = loc[t].magnitudes])
Set_DDI_normals(t) ==
    Install(t, "ddi_normals", "ddi_update", [H(t) EXCEPT !.ddi_normals = loc[t].normals])
Set_DDI_update(t) == Finish(t, "ddi_update", Update_Energy_Contributions(H(t)))

\* the calls into the engine that can raise an internal fault
FaultSites ==
    {"field_update", "anisotropy_update", "exchange_update", "dmi_update",
     "ddi_generate", "ddi_update"}

\* what the Hamiltonian is when the call at a fault site succeeds
Success(t) ==
    CASE pc[t] \in {"exchange_update", "dmi_update"} -> Update_Interactions(H(t))
      [] pc[t] \in {"field_update", "anisotropy_update", "ddi_update"} ->
            Update_Energy_Contributions(H(t))
      [] OTHER -> H(t)

\* mutant of Fault: the fault leaves the function without Unlock()
Fault_escapes(t) ==
    /\ pc[t] \in FaultSites
    /\ notices' = spirit_handle_exception_api(t)
    /\ loc' = [loc EXCEPT ![t].faulted = TRUE]
    /\ pc' = [pc EXCEPT ![t] = "ret"]
    /\ UNCHANGED <<ham, lock, call, out, ncalls, pre, half, okOut, lastExchange, last>>
\* the engine raises a fault inside the locked section: the inner catch block
\* turns it into an error notice, and the function goes on to Unlock()
Fault(t) ==
    /\ pc[t] \in FaultSites
    /\ notices' = spirit_handle_exception_api(t)
    /\ loc' = [loc EXCEPT ![t].faulted = TRUE]
    /\ half' = [half EXCEPT ![Img(t)] = H(t) \notin {pre[t][Img(t)], Success(t)}]
    /\ pc' = [pc EXCEPT ![t] = "unlock"]
    /\ UNCHANGED <<ham, lock, call, out, ncalls, pre, okOut, lastExchange, last>>

\* the solver evaluates the Hamiltonian while it holds the lock
Solver_Step_eval(t) ==
    /\ pc[t] = "solver_eval"
    /\ pc' = [pc EXCEPT ![t] = "unlock"]
    /\ UNCHANGED <<ham, lock, call, loc, out, notices, ncalls, pre, half, okOut, lastExchange, last>>

SetterSteps(t) ==
    \/ Lock(t) \/ Unlock(t) \/ Return(t) \/ Fault(t) \/ Unsupported(t)
    \/ Set_Boundary_Conditions_0(t) \/ Set_Boundary_Conditions_1(t)
    \/ Set_Boundary_Conditions_2(t) \/ Set_Boundary_Conditions_Log(t)
    \/ Set_mu_s_loop(t)
    \/ Set_Field_magnitude(t) \/ Set_Field_normal(t) \/ Set_Field_update(t)
    \/ Set_Anisotropy_indices(t) \/ Set_Anisotropy_magnitudes(t)
    \/ Set_Anisotropy_normals(t) \/ Set_Anisotropy_update(t)
    \/ Set_Exchange_shell_magnitudes(t) \/ Set_Exchange_pairs_in(t)
    \/ Set_Exchange_magnitudes_in(t) \/ Set_Exchange_update(t)
    \/ Set_DMI_shell_magnitudes(t) \/ Set_DMI_shell_chirality(t) \/ Set_DMI_pairs_in(t)
    \/ Set_DMI_magnitudes_in(t) \/ Set_DMI_normals_in(t) \/ Set_DMI_update(t)
    \/ Set_DDI_generate(t) \/ Set_DDI_pairs(t) \/ Set_DDI_magnitudes(t)
    \/ Set_DDI_normals(t) \/ Set_DDI_update(t)
    \/ Solver_Step_eval(t)

(***************************************************************************)
(* The getters: no lock is taken; one action per read where a setter's     *)
(* writes can fall between two reads of the same call.                     *)
(***************************************************************************)
\* one statement of a getter that writes output locations
Read(t, from, to, o) ==
    /\ pc[t] = from
    /\ out' = [out EXCEPT ![t] = o]
    /\ pc' = [pc EXCEPT ![t] = to]
    /\ UNCHANGED <<ham, lock, call, loc, notices, ncalls, pre, half, okOut, lastExchange, last>>

\* a read of element 1 of a vector; of an empty vector it is out of bounds
First(v) == IF Len(v) > 0 THEN v[1] ELSE "indeterminate"

Get_Name(t) ==
    /\ pc[t] = "get"
    /\ call[t].op = "Get_Name"
    /\ Read(t, "get", "ret", Put(out[t], "return", H(t).name))

Get_Boundary_Conditions_0(t) ==
    Read(t, "get_bc0", "get_bc1", Put(out[t], "periodical0", H(t).boundary_conditions[1]))
Get_Boundary_Conditions_1(t) ==
    Read(t, "get_bc1", "get_bc2", Put(out[t], "periodical1", H(t).boundary_conditions[2]))
Get_Boundary_Conditions_2(t) ==
    Read(t, "get_bc2", "ret", Put(out[t], "periodical2", H(t).boundary_conditions[3]))

Get_mu_s(t) ==
    /\ pc[t] = "get"
    /\ call[t].op = "Get_mu_s"
    /\ Read(t, "get", "ret",
            IF IsHeisenberg(H(t))
              THEN Put(out[t], "mu_s", [i \in 1..n_cell_atoms |-> H(t).mu_s[i]])
              ELSE out[t])

\* the tests of Name() and of external_field_magnitude > 0, and the else branch
Get_Field_test(t) ==
    /\ pc[t] = "get_field_test"
    /\ IF ~IsHeisenberg(H(t)) THEN Read(t, "get_field_test", "ret", out[t])
       ELSE IF H(t).external_field_magnitude > 0
              THEN Read(t, "get_field_test", "get_field_magnitude", out[t])
              ELSE Read(t, "get_field_test", "ret",
                        Put(Put(out[t], "magnitude", 0), "normal", DefaultDirection))
\* mutant of Get_Field_magnitude: the stored magnitude is returned as it is
Get_Field_magnitude_stored(t) ==
    Read(t, "get_field_magnitude", "get_field_normal",
         Put(out[t], "magnitude", H(t).external_field_magnitude))
Get_Field_magnitude(t) ==
    Read(t, "get_field_magnitude", "get_field_normal",
         Put(out[t], "magnitude", H(t).external_field_magnitude \div mu_B))
Get_Field_normal(t) ==
    Read(t, "get_field_normal", "ret", Put(out[t], "normal", H(t).external_field_normal))

\* the tests of Name() and of anisotropy_indices.size() > 0, and the else branch
Get_Anisotropy_test(t) ==
    /\ pc[t] = "get_anisotropy_test"
    /\ IF ~IsHeisenberg(H(t)) THEN Read(t, "get_anisotropy_test", "ret", out[t])
       ELSE IF Len(H(t).anisotropy_indices) > 0
              THEN Read(t, "get_anisotropy_test", "get_anisotropy_magnitude", out[t])
              ELSE Read(t, "get_anisotropy_test", "ret",
                        Put(Put(out[t], "magnitude", 0), "normal", DefaultDirection))
Get_Anisotropy_magnitude(t) ==
    Read(t, "get_anisotropy_magnitude", "get_anisotropy_normal",
         Put(out[t], "magnitude", First(H(t).anisotropy_magnitudes)))
Get_Anisotropy_normal(t) ==
    Read(t, "get_anisotropy_normal", "ret",
         Put(out[t], "normal", First(H(t).anisotropy_normals)))

Get_Exchange_Shells(t) ==
    /\ pc[t] = "get"
    /\ call[t].op = "Get_Exchange_Shells"
    /\ Read(t, "get", "ret",
            IF IsHeisenberg(H(t))
              THEN Put(Put(out[t], "n_shells", Len(H(t).exchange_shell_magnitudes)),
                       "jij", H(t).exchange_shell_magnitudes)
              ELSE out[t])

Get_DMI_Shells(t) ==
    /\ pc[t] = "get"
    /\ call[t].op = "Get_DMI_Shells"
    /\ Read(t, "get", "ret",
            IF IsHeisenberg(H(t))
              THEN Put(Put(Put(out[t], "n_shells", Len(H(t).dmi_shell_magnitudes)),
                           "chirality", H(t).dmi_shell_chirality),
                       "dij", H(t).dmi_shell_magnitudes)
              ELSE out[t])

\* mutant of Get_DDI: without the test of Name(), radius 0 for other variants
Get_DDI_any(t) ==
    /\ pc[t] = "get"
    /\ call[t].op = "Get_DDI"
    /\ Read(t, "get", "ret",
            Put(out[t], "radius", IF IsHeisenberg(H(t)) THEN H(t).ddi_cutoff_radius ELSE 0))
Get_DDI(t) ==
    /\ pc[t] = "get"
    /\ call[t].op = "Get_DDI"
    /\ Read(t, "get", "ret",
            IF IsHeisenberg(H(t)) THEN Put(out[t], "radius", H(t).ddi_cutoff_radius)
            ELSE out[t])

\* mutant of PairCount: the number of exchange pairs of the Hamiltonian
PairCount_exported(h) == IF IsHeisenberg(h) THEN Len(h.exchange_pairs) ELSE 0
\* the pair count the unimplemented pair export returns
PairCount(h) == 0

\* Get_Exchange_N_Pairs, Get_Exchange_Pairs and Get_DMI_N_Pairs: a warning,
\* and 0 from the two that return a count
Get_Pairs_stub(t) ==
    /\ pc[t] = "get_pairs_stub"
    /\ notices' = Log(t, "Warning")
    /\ out' = [out EXCEPT ![t] =
                  IF call[t].op = "Get_Exchange_Pairs" THEN @
                  ELSE Put(@, "return", PairCount(H(t)))]
    /\ pc' = [pc EXCEPT ![t] = "ret"]
    /\ UNCHANGED <<ham, lock, call, loc, ncalls, pre, half, okOut, lastExchange, last>>

RacyGetterSteps(t) ==
    \/ Get_Boundary_Conditions_0(t) \/ Get_Boundary_Conditions_1(t)
    \/ Get_Boundary_Conditions_2(t)
    \/ Get_Field_test(t) \/ Get_Field_magnitude(t) \/ Get_Field_normal(t)
    \/ Get_Anisotropy_test(t) \/ Get_Anisotropy_magnitude(t) \/ Get_Anisotropy_normal(t)

OtherGetterSteps(t) ==
    \/ Get_Name(t) \/ Get_mu_s(t) \/ Get_Exchange_Shells(t) \/ Get_DMI_Shells(t)
    \/ Get_DDI(t) \/ Get_Pairs_stub(t)

(***************************************************************************)
(* Specifications.                                                         *)
(***************************************************************************)
\* one caller issuing any call of the API, one after the other
Next ==
    \E t \in Threads :
        \/ Call(t, AllCalls, MaxCalls)
        \/ SetterSteps(t)
        \/ RacyGetterSteps(t)
        \/ OtherGetterSteps(t)

Spec == Init /\ [][Next]_vars

\* two callers whose calls interleave statement by statement
NextConc ==
    \E t \in Threads :
        \/ Call(t, ConcCalls, MaxConcCalls)
        \/ SetterSteps(t)
        \/ RacyGetterSteps(t)

SpecConc == InitConc /\ [][NextConc]_vars

\* the next statement of the call that thread t is running
ThreadSteps(t) == SetterSteps(t) \/ RacyGetterSteps(t)

\* two concurrent callers, each of which keeps running: a thread whose next
\* statement can be executed eventually executes it, and a thread waiting in
\* Lock() gets the lock once it stays free
SpecLive == InitConc /\ [][NextConc]_vars /\ \A t \in Threads : WF_vars(ThreadSteps(t))

(***************************************************************************)
(* Properties.                                                             *)
(***************************************************************************)
\* the positions of a call between Lock() and Unlock()
SectionPcs ==
    {"bc0", "bc1", "bc2", "unsupported", "mu_s", "field_magnitude", "field_normal",
     "field_update", "anisotropy_indices", "anisotropy_magnitudes", "anisotropy_normals",
     "anisotropy_update", "exchange_shell_magnitudes", "exchange_pairs_in",
     "exchange_magnitudes_in", "exchange_update", "dmi_shell_magnitudes",
     "dmi_shell_chirality", "dmi_pairs_in", "dmi_magnitudes_in", "dmi_normals_in",
     "dmi_update", "ddi_generate", "ddi_pairs", "ddi_magnitudes", "ddi_normals",
     "ddi_update", "solver_eval", "unlock"}

Running(t) == pc[t] \notin {"idle", "off"}
Resolved(t) == from_indices_ok(call[t].idx_image, call[t].idx_chain)
InSetterSection(t) == pc[t] \in SectionPcs /\ call[t].op \in Setters
\* thread t took a step
Stepped(t) == pc'[t] # pc[t] \/ loc'[t] # loc[t]

\* no two setters are inside their sections on the same image
SettersExclude ==
    \A a, b \in Threads :
        (a # b /\ InSetterSection(a) /\ InSetterSection(b)) => Img(a) # Img(b)

\* a step that changes an image's Hamiltonian is a step of a setter that holds
\* that image's lock
WritesHoldLock ==
    \A im \in Images :
        ham'[im] # ham[im] =>
            \E t \in Threads :
                /\ Stepped(t) /\ call[t].op \in Setters
                /\ Img(t) = im /\ lock[im] = t /\ lock'[im] = t

\* C1: setters on the same image are mutually exclusive: at most one thread is
\* inside its validate-install-recompute section, and every write of a
\* Hamiltonian field is made by a setter holding the image's lock.
C1_MutationsAtomic == [](SettersExclude) /\ [][WritesHoldLock]_vars

\* C1 witness: a setter has written inside its section while another setter
\* of the same image waits for the lock
C1_Witness ==
    \E a, b \in Threads :
        /\ a # b /\ Img(a) = Img(b)
        /\ call[a].op \in Setters /\ call[b].op \in Setters
        /\ pc[a] \in SectionPcs /\ ham[Img(a)] # pre[a][Img(a)]
        /\ pc[b] = "lock"

\* C2: a setter that has returned, or has passed its Unlock(), holds no lock,
\* whichever path it took through its section.
C2_LockReleased ==
    \A t \in Threads :
        (pc[t] \in {"idle", "ret", "bc_log"}) => \A im \in Images : lock[im] # t

\* C2 witness: a setter returned after a fault was raised and caught inside
\* its locked section
C2_Witness ==
    \E t \in Threads :
        /\ pc[t] = "ret" /\ call[t].op \in Setters /\ Resolved(t)
        /\ loc[t].faulted
        /\ lock[Img(t)] # t

\* C3 (as claimed): whenever the solver holds the lock of an image, no setter
\* is inside its section on that image and the last setter section on it was
\* not left half-applied.
C3_SolverSeesWholeMutations ==
    \A t \in Threads :
        pc[t] = "solver_eval" =>
            /\ lock[Img(t)] = t
            /\ \A s \in Threads \ {t} : ~(InSetterSection(s) /\ Img(s) = Img(t))
            /\ ~half[Img(t)]

\* the values Get_Boundary_Conditions and Get_Field have written, read whole
Returned(t) ==
    IF call[t].op = "Get_Boundary_Conditions"
      THEN <<out[t]["periodical0"], out[t]["periodical1"], out[t]["periodical2"]>>
      ELSE <<out[t]["magnitude"], out[t]["normal"]>>

\* C4 (as claimed): what Get_Boundary_Conditions or Get_Field returns is one
\* of the complete values the image had during the call: the value before, or
\* the value installed by a setter that ran during the call; never a mixture.
C4_GetterNeverTorn ==
    \A t \in Threads :
        (/\ pc[t] = "ret" /\ Resolved(t)
         /\ call[t].op \in RacyGetters
         /\ IsHeisenberg(ham[Img(t)]))
        => Returned(t) \in okOut[t]

\* a call of op that resolved its image and has reached its return
Done(t, ops) == pc[t] = "ret" /\ call[t].op \in ops /\ Resolved(t)

\* C5: a Heisenberg-only setter called on an image whose Hamiltonian is not
\* Heisenberg returns with every Hamiltonian parameter unchanged, having sent
\* exactly one notice, a warning, and with the lock released.
C5_UnsupportedVariantNoOp ==
    \A t \in Threads :
        (/\ Running(t) /\ Resolved(t)
         /\ call[t].op \in HeisenbergSetters
         /\ ~IsHeisenberg(ham[Img(t)]))
        => /\ ham = pre[t]
           /\ CountLevel(t, "Info") = 0 /\ CountLevel(t, "Error") = 0
           /\ pc[t] = "ret" =>
                 /\ notices[t] = <<Notice("Warning", call[t])>>
                 /\ lock[Img(t)] = NoThread

\* C5 witness: Set_Anisotropy has returned from a Gaussian image
C5_Witness ==
    \E t \in Threads :
        /\ Done(t, {"Set_Anisotropy"})
        /\ ham[Img(t)].name = "Gaussian"
        /\ notices[t] # <<>>

\* C6: a call whose image does not resolve returns with one error notice keyed
\* by the indices it was given, with no lock taken and no Hamiltonian changed;
\* Get_Name returns null, the pair counts return 0, and nothing else is written.
C6_FaultIsolation ==
    \A t \in Threads :
        (Running(t) /\ ~Resolved(t))
        => /\ pc[t] = "ret"
           /\ notices[t] = << <<"Error", call[t].idx_image, call[t].idx_chain>> >>
           /\ \A im \in Images : lock[im] = NoThread
           /\ ham = pre[t]
           /\ out[t] = IF call[t].op = "Get_Name" THEN [return |-> "nullptr"]
                       ELSE IF call[t].op \in {"Get_Exchange_N_Pairs", "Get_DMI_N_Pairs"}
                              THEN [return |-> 0]
                              ELSE NoOut

\* C6 witness: Get_Name was called with an image index that does not exist
C6_Witness ==
    \E t \in Threads :
        /\ pc[t] = "ret" /\ call[t].op = "Get_Name"
        /\ call[t].idx_image \notin Images
        /\ Written(t, "return")

Rederived(h) == h = Update_Interactions(h)

\* C8: when a Set_Exchange (Set_DMI) on a Heisenberg image has run its section
\* without a fault, then still inside the section the explicit exchange (DMI)
\* pair list and its per-pair lists are empty and the interactions are
\* re-derived.
C8_ExplicitPairsReplaced ==
    \A t \in Threads :
        (/\ pc[t] \in {"unlock", "ret"} /\ Resolved(t)
         /\ call[t].op \in {"Set_Exchange", "Set_DMI"}
         /\ IsHeisenberg(ham[Img(t)])
         /\ ~loc[t].faulted)
        => LET h == ham[Img(t)]
           IN  /\ call[t].op = "Set_Exchange" =>
                     h.exchange_pairs_in = <<>> /\ h.exchange_magnitudes_in = <<>>
               /\ call[t].op = "Set_DMI" =>
                     /\ h.dmi_pairs_in = <<>> /\ h.dmi_magnitudes_in = <<>>
                     /\ h.dmi_normals_in = <<>>
               /\ Rederived(h)
               /\ pc[t] = "unlock" => lock[Img(t)] = t

\* C8 witness: Set_Exchange is about to unlock an image that had explicit
\* exchange pairs before the call
C8_Witness ==
    \E t \in Threads :
        /\ pc[t] = "unlock" /\ call[t].op = "Set_Exchange" /\ ~loc[t].faulted
        /\ IsHeisenberg(ham[Img(t)])
        /\ pre[t][Img(t)].exchange_pairs_in # <<>>
        /\ ham[Img(t)].exchange_pairs # pre[t][Img(t)].exchange_pairs

\* C9: the pair-export stubs return 0 (the two counts) or write nothing
\* (Get_Exchange_Pairs), send exactly one notice, a warning, take no lock and
\* change no Hamiltonian, on any variant and in any state.
C9_PairExportStubs ==
    \A t \in Threads :
        (Running(t) /\ Resolved(t) /\ call[t].op \in PairStubs)
        => /\ ham = pre[t]
           /\ \A im \in Images : lock[im] = NoThread
           /\ pc[t] = "ret" =>
                 /\ notices[t] = <<Notice("Warning", call[t])>>
                 /\ out[t] = IF call[t].op = "Get_Exchange_Pairs" THEN NoOut
                             ELSE [return |-> 0]

\* C9 witness: Get_Exchange_N_Pairs returned from a Heisenberg image that
\* has exchange pairs
C9_Witness ==
    \E t \in Threads :
        /\ Done(t, {"Get_Exchange_N_Pairs"})
        /\ IsHeisenberg(ham[Img(t)])
        /\ Len(ham[Img(t)].exchange_pairs) > 0
        /\ Written(t, "return")

\* the direction n = vec / sqrt(sq) has norm 1
UnitNorm(n) == Dot(n.vec, n.vec) = n.sq
\* the direction n is a positive multiple of the vector v
SameOrientation(n, v) == Cross(n.vec, v) = <<0, 0, 0>> /\ Dot(n.vec, v) > 0

\* C10: once Set_Field (Set_Anisotropy) has stored the direction, the stored
\* field direction (every stored anisotropy direction) has unit norm and is a
\* positive multiple of the direction given.
C10_DirectionNormalized ==
    \A t \in Threads :
        LET h == ham[Img(t)]
            v == call[t].vector
        IN  /\ (call[t].op = "Set_Field" /\ pc[t] \in {"field_update", "unlock", "ret"}
                /\ Resolved(t) /\ IsHeisenberg(h))
               => UnitNorm(h.external_field_normal)
                  /\ SameOrientation(h.external_field_normal, v)
            /\ (call[t].op = "Set_Anisotropy" /\ pc[t] \in {"anisotropy_update", "unlock", "ret"}
                /\ Resolved(t) /\ IsHeisenberg(h))
               => /\ Len(h.anisotropy_normals) > 0
                  /\ \A k \in 1..Len(h.anisotropy_normals) :
                        /\ UnitNorm(h.anisotropy_normals[k])
                        /\ SameOrientation(h.anisotropy_normals[k], v)

\* C10 witness: Set_Anisotropy returned after storing the direction (3, -4, 0)
C10_Witness ==
    \E t \in Threads :
        /\ Done(t, {"Set_Anisotropy"})
        /\ IsHeisenberg(ham[Img(t)])
        /\ call[t].vector = <<3, -4, 0>>
        /\ ham[Img(t)].anisotropy_normals # <<>>
        /\ ham[Img(t)].anisotropy_normals[1].sq = 25

\* setter call of thread t has returned on an image where the last setter
\* call was the same call with the same arguments
Reissued(t) ==
    /\ Done(t, Setters)
    /\ last[Img(t)].call = call[t]

C12_BoundaryConditionsSet ==
    \A t \in Threads :
        /\ Done(t, {"Set_Boundary_Conditions"}) =>
              /\ \A a \in 1..3 : ham[Img(t)].boundary_conditions[a] = call[t].flags[a]
              /\ [ham EXCEPT ![Img(t)].boundary_conditions =
                                 pre[t][Img(t)].boundary_conditions] = pre[t]
              /\ notices[t] = <<Notice("Info", call[t])>>
        /\ (/\ Done(t, {"Get_Boundary_Conditions"})
            /\ last[Img(t)].call.op = "Set_Boundary_Conditions") =>
              Returned(t) = last[Img(t)].call.flags

\* C12 witness: Get_Boundary_Conditions returned (false, true, false) from the
\* Gaussian image after Set_Boundary_Conditions had set it
C12_Witness ==
    \E t \in Threads :
        /\ Done(t, {"Get_Boundary_Conditions"})
        /\ ~IsHeisenberg(ham[Img(t)])
        /\ last[Img(t)].call.op = "Set_Boundary_Conditions"
        /\ Returned(t) = <<FALSE, TRUE, FALSE>>
        /\ ham[Img(t)].boundary_conditions # Gaussian.boundary_conditions

\* C13: Set_mu_s on a Heisenberg image leaves a moment array of the same
\* length with the given value in every entry and every other parameter as it
\* was; a following Get_mu_s returns the value for every cell atom.
C13_MomentSetUniformly ==
    \A t \in Threads :
        /\ (Done(t, {"Set_mu_s"}) /\ IsHeisenberg(ham[Img(t)])) =>
              /\ Len(ham[Img(t)].mu_s) = Len(pre[t][Img(t)].mu_s)
              /\ \A k \in 1..Len(ham[Img(t)].mu_s) : ham[Img(t)].mu_s[k] = call[t].scalar
              /\ [ham EXCEPT ![Img(t)].mu_s = pre[t][Img(t)].mu_s] = pre[t]
        /\ (/\ Done(t, {"Get_mu_s"}) /\ IsHeisenberg(ham[Img(t)])
            /\ last[Img(t)].call.op = "Set_mu_s") =>
              /\ Written(t, "mu_s")
              /\ out[t]["mu_s"] = Fill(n_cell_atoms, last[Img(t)].call.scalar)

\* C13 witness: Get_mu_s returned the moment 2 that Set_mu_s had set on every
\* site of the image
C13_Witness ==
    \E t \in Threads :
        /\ Done(t, {"Get_mu_s"}) /\ IsHeisenberg(ham[Img(t)])
        /\ last[Img(t)].call.op = "Set_mu_s"
        /\ last[Img(t)].call.scalar = 2
        /\ ham[Img(t)].mu_s = Fill(nos, 2)
        /\ Written(t, "mu_s")

\* a step of a setter call leaves the lock and the Hamiltonian of every image
\* other than its own as they were
SetterTouchesOwnImage ==
    \A t \in Threads :
        (Stepped(t) /\ call[t].op \in Setters) =>
            \A im \in Images \ {Img(t)} : ham'[im] = ham[im] /\ lock'[im] = lock[im]

\* a setter waiting at Lock() can take the lock whenever its own image's lock
\* is free, whatever locks of other images are held
OwnLockSuffices ==
    \A t \in Threads :
        (pc[t] = "lock" /\ call[t].op \in Setters /\ lock[Img(t)] = NoThread)
        => ENABLED Lock(t)

\* C14: a setter call on image i takes no lock and changes no Hamiltonian of
\* another image, and is never kept waiting by a setter on another image.
C14_ImageIsolation == [](OwnLockSuffices) /\ [][SetterTouchesOwnImage]_vars

\* C14 witness: two setters are inside their sections at the same time, on
\* different images, and both have written
C14_Witness ==
    \E a, b \in Threads :
        /\ a # b /\ Img(a) # Img(b)
        /\ InSetterSection(a) /\ InSetterSection(b)
        /\ lock[Img(a)] = a /\ lock[Img(b)] = b
        /\ ham[Img(a)] # pre[a][Img(a)]
        /\ ham[Img(b)] # pre[b][Img(b)]

\* C15 (as claimed): a setter call that has sent its informational notice no
\* longer holds the lock of its image: the notice comes after the release.
C15_NoticeAfterRelease ==
    \A t \in Threads :
        (Running(t) /\ Resolved(t) /\ call[t].op \in Setters /\ CountLevel(t, "Info") > 0)
        => lock[Img(t)] # t

\* the cached list of active contributions is the one computed from the
\* parameters installed in h
CacheFresh(h) ==
    IsHeisenberg(h) =>
        h.energy_contributions = Update_Energy_Contributions(h).energy_contributions

\* C16 (as claimed): at every release of the lock by a setter, the cached list
\* of active contributions has been recomputed from the parameters that are
\* installed: it is the list of the installed parameters.
C16_CacheFreshAtRelease ==
    \A t \in Threads :
        (pc[t] = "unlock" /\ Resolved(t) /\ call[t].op \in Setters)
        => CacheFresh(ham[Img(t)])

\* C17 (as claimed): after a Set_Anisotropy that raised no fault on a
\* Heisenberg image, the index, magnitude and direction lists each have one
\* entry per cell atom, the indices are 0 .. n_cell_atoms-1, every magnitude
\* is the one given and every direction the normalized one given.
C17_AnisotropyPerCellAtom ==
    \A t \in Threads :
        (Done(t, {"Set_Anisotropy"}) /\ IsHeisenberg(ham[Img(t)]) /\ ~loc[t].faulted)
        => LET h == ham[Img(t)]
           IN  /\ Len(h.anisotropy_indices) = n_cell_atoms
               /\ Len(h.anisotropy_magnitudes) = n_cell_atoms
               /\ Len(h.anisotropy_normals) = n_cell_atoms
               /\ \A k \in 1..n_cell_atoms : h.anisotropy_indices[k] = k - 1
               /\ \A k \in 1..n_cell_atoms : h.anisotropy_magnitudes[k] = call[t].scalar
               /\ \A k \in 1..Len(h.anisotropy_normals) :
                      h.anisotropy_normals[k] = normalize(call[t].vector)

\* the three dipolar lists of h have the same length
DDIListsAligned(h) ==
    /\ Len(h.ddi_magnitudes) = Len(h.ddi_pairs)
    /\ Len(h.ddi_normals) = Len(h.ddi_pairs)

OnlyLockBlocks ==
    \A t \in Threads :
        (Running(t) /\ pc[t] # "lock") => ENABLED ThreadSteps(t)

\* a thread holds at most one lock, holds none when it calls Lock(), and holds
\* none while it runs a getter
LockHeldOnce ==
    \A t \in Threads :
        /\ Cardinality({im \in Images : lock[im] = t}) <= 1
        /\ pc[t] = "lock" => \A im \in Images : lock[im] # t
        /\ call[t].op \in Getters => \A im \in Images : lock[im] # t

\* every call that was issued returns
CallsReturn == \A t \in Threads : (pc[t] # "idle") ~> (pc[t] = "idle")

\* C19: Lock() is the only statement at which a call can wait; no caller holds
\* two locks or calls Lock() while holding one, getters take no lock and are
\* never kept waiting; and every call, in particular every setter call that
\* had to wait for the lock, eventually returns.
C19_Progress == [](OnlyLockBlocks /\ LockHeldOnce) /\ CallsReturn

\* C19 witness: a getter has run to its return while a setter on the same
\* image holds the lock, and that setter has written
C19_Witness ==
    \E a, b \in Threads :
        /\ a # b
        /\ pc[a] = "ret" /\ call[a].op \in Getters /\ Resolved(a)
        /\ Written(a, "normal")
        /\ call[b].op \in Setters /\ lock[Img(a)] = b
        /\ ham[Img(b)] # pre[b][Img(b)]

\* C20 (as claimed): after a Set_DDI that raised no fault on a Heisenberg
\* image, the stored cutoff radius is the radius the installed dipolar pairs
\* were generated from, and a following Get_DDI returns that radius.
C20_DipolarRadiusRoundTrip ==
    \A t \in Threads :
        /\ (Done(t, {"Set_DDI"}) /\ IsHeisenberg(ham[Img(t)]) /\ ~loc[t].faulted) =>
              /\ ham[Img(t)].ddi_pairs = Get_Pairs_in_Radius(call[t].scalar)
              /\ ham[Img(t)].ddi_cutoff_radius = call[t].scalar
        /\ (/\ Done(t, {"Get_DDI"}) /\ IsHeisenberg(ham[Img(t)])
            /\ last[Img(t)].call.op = "Set_DDI" /\ ~last[Img(t)].faulted) =>
              /\ Written(t, "radius")
              /\ out[t]["radius"] = last[Img(t)].call.scalar

\* C21: on a Heisenberg image, Set_Field(M, d) stores M * mu_B and the
\* normalized d; a Get_Field that follows it returns magnitude M and the
\* normalized d when M > 0, and magnitude 0 and direction (0,0,1) when
\* M <= 0, whatever magnitude and direction are stored.
C21_FieldRoundTrip ==
    \A t \in Threads :
        LET h == ham[Img(t)]
            c == last[Img(t)].call
        IN  (Done(t, {"Get_Field"}) /\ IsHeisenberg(h) /\ c.op = "Set_Field") =>
                /\ h.external_field_magnitude = c.scalar * mu_B
                /\ SameOrientation(h.external_field_normal, c.vector)
                /\ Written(t, "magnitude") /\ Written(t, "normal")
                /\ IF c.scalar > 0
                     THEN /\ out[t]["magnitude"] = c.scalar
                          /\ UnitNorm(out[t]["normal"])
                          /\ SameOrientation(out[t]["normal"], c.vector)
                     ELSE /\ out[t]["magnitude"] = 0
                          /\ out[t]["normal"] = DefaultDirection

\* C21 witness: Get_Field returned after Set_Field(-1, (3,-4,0)): a negative
\* magnitude and the direction (3,-4,0)/5 are stored, 0 and (0,0,1) returned
C21_Witness ==
    \E t \in Threads :
        /\ Done(t, {"Get_Field"})
        /\ IsHeisenberg(ham[Img(t)])
        /\ last[Img(t)].call.op = "Set_Field"
        /\ last[Img(t)].call.scalar < 0
        /\ ham[Img(t)].external_field_magnitude < 0
        /\ ham[Img(t)].external_field_normal.sq = 25
        /\ out[t]["magnitude"] = 0

\* Get_DMI_Shells returns what the Set_DMI before it was given
DMIReturned ==
    \A t \in Threads :
        LET h == ham[Img(t)]
            c == last[Img(t)].call
        IN  (Done(t, {"Get_DMI_Shells"}) /\ IsHeisenberg(h) /\ c.op = "Set_DMI") =>
                /\ h.dmi_shell_magnitudes = c.array
                /\ h.dmi_shell_chirality = c.chirality
                /\ Written(t, "n_shells") /\ Written(t, "dij") /\ Written(t, "chirality")
                /\ out[t]["n_shells"] = n_shells(c)
                /\ out[t]["dij"] = c.array
                /\ out[t]["chirality"] = c.chirality

\* a step that changes the stored DMI shells or chirality is a step of Set_DMI
DMIShellsKept ==
    \A i \in Images :
        (/\ IsHeisenberg(ham[i])
         /\ \/ ham'[i].dmi_shell_magnitudes # ham[i].dmi_shell_magnitudes
            \/ ham'[i].dmi_shell_chirality # ham[i].dmi_shell_chirality)
        => \E t \in Threads : call[t].op = "Set_DMI" /\ Img(t) = i /\ Stepped(t)

\* C22: on a Heisenberg image, a Get_DMI_Shells after Set_DMI(k, dij, c)
\* returns n_shells = k, the k magnitudes of dij in order and chirality c, and
\* only steps of Set_DMI change the stored DMI shell magnitudes or chirality.
C22_DMIRoundTrip == [](DMIReturned) /\ [][DMIShellsKept]_vars

\* C22 witness: Get_DMI_Shells returned the two shells and the chirality -1
\* given to the Set_DMI before it
C22_Witness ==
    \E t \in Threads :
        /\ Done(t, {"Get_DMI_Shells"})
        /\ IsHeisenberg(ham[Img(t)])
        /\ last[Img(t)].call.op = "Set_DMI"
        /\ last[Img(t)].call.chirality = -1
        /\ out[t]["n_shells"] = 2
        /\ out[t]["dij"] = <<5, 7>>
        /\ out[t]["chirality"] = -1

\* C23: a Heisenberg-only getter called on a resolved image whose Hamiltonian
\* is not Heisenberg writes no output location, sends no notice and changes
\* neither a Hamiltonian nor a lock; and every getter, on any image, leaves
\* every Hamiltonian as it was when the getter was called.
C23_GettersReadOnly ==
    \A t \in Threads :
        /\ (/\ Running(t) /\ Resolved(t)
            /\ call[t].op \in HeisenbergGetters
            /\ ~IsHeisenberg(ham[Img(t)]))
           => /\ out[t] = NoOut
              /\ notices[t] = <<>>
              /\ ham = pre[t]
              /\ \A i \in Images : LockFree(i)
        /\ (Running(t) /\ call[t].op \in Getters)
           => /\ ham = pre[t]
              /\ \A i \in Images : LockFree(i)

\* C23 witness: Get_DDI has returned from a Gaussian image with its output
\* location unwritten
C23_Witness ==
    \E t \in Threads :
        /\ Done(t, {"Get_DDI"})
        /\ ham[Img(t)].name = "Gaussian"
        /\ ~Written(t, "radius")
        /\ notices[t] = <<>>

====
